---- MODULE Spec2Model ----
(***************************************************************************)
(* claude-session-monitor backend: the SQLite store (db.rs), the HTTP      *)
(* handlers (api.rs) and the cleanup task (main.rs), one step per SQL      *)
(* statement or channel operation.                                         *)
(*                                                                         *)
(* Tables are sets of rows.  A row keeps the columns the handlers read or  *)
(* write in a WHERE / SET clause: the uuid primary key, project_path,      *)
(* project_name, created_at and parent_session_id are never read by any    *)
(* statement's condition and are left out.  The events table is kept as    *)
(* the number of log rows per session_id (the only column a statement      *)
(* selects on).                                                            *)
(*                                                                         *)
(* Time is counted in clock ticks of 1/TicksPerSecond second; chrono's     *)
(* to_rfc3339() stores a timestamp with its sub-second part, and SQLite's  *)
(* datetime() drops that part.                                             *)
(***************************************************************************)
EXTENDS Integers, FiniteSets, Sequences

\* ------------------------------------------------------------- bounds
\* clock ticks per second
TicksPerSecond == 2
\* how many HTTP requests are accepted in a run
MaxRequests == 3
\* the capacity main asks of the broadcast channel (100 in main.rs)
Capacity == 3

\* ---------------------------------------------------------- constants
\* db.rs: datetime('now', '-60 seconds')
TTL_SECONDS == 60

SessionIds == {"s1", "s2"}
AgentNames == {"main", "worker"}
Statuses == {"active", "idle", "waiting_input", "needs_permission", "completed"}
EventTypes ==
    {"stop", "session_end", "notification", "needs_permission",
     "subagent_stop", "tool_use"}

\* HookEvent.agent_name is an Option<String>
None == "<none>"
AgentNameInputs == {None, "worker"}

\* the TTL in clock ticks
TTL == TTL_SECONDS * TicksPerSecond
\* the instants at which the clock is read: the start, one tick later, one
\* tick short of the TTL, and the TTL
ClockReadings == {0, 1, TTL - 1, TTL}
\* fewer of them
LongReadings == {0, TTL}

Workers == {"w1", "w2"}
Sweeper == "sweeper"
\* the tasks of the WebSocket connections
Clients == {"c1", "c2"}
Procs == Workers \cup {Sweeper} \cup Clients


\* ------------------------------------------------------------ inputs
\* needs_input is sent with notification and tool_use events
HookEvents ==
    { e \in [event_type : EventTypes, session_id : SessionIds,
             agent_name : AgentNameInputs, needs_input : BOOLEAN] :
        e.needs_input => e.event_type \in {"notification", "tool_use"} }

PostEvent(e) ==
    [kind |-> "post_event", event_type |-> e.event_type,
     session_id |-> e.session_id, agent_name |-> e.agent_name,
     needs_input |-> e.needs_input]

Plain(kind, sid) ==
    [kind |-> kind, event_type |-> None, session_id |-> sid,
     agent_name |-> None, needs_input |-> FALSE]

NoRequest == Plain("none", None)
\* GET /ws
WsRequest == Plain("ws", None)
SweepRequest == Plain("sweep", None)

\* the requests that name a session of sids and send an event of E
RequestsFor(sids, E) ==
    {PostEvent(e) : e \in {x \in E : x.session_id \in sids}}
    \cup {Plain("delete_session", s) : s \in sids}
    \cup {Plain("clear_all_sessions", None), Plain("get_sessions", None)}

\* every request about one session
Requests == RequestsFor({"s1"}, HookEvents)

\* the main agent's tool_use, notification(needs_input), stop and session_end,
\* and the worker's subagent_stop
MainEvents ==
    { e \in HookEvents :
        /\ e.agent_name = (IF e.event_type = "subagent_stop" THEN "worker" ELSE None)
        /\ e.event_type \in {"tool_use", "notification", "stop", "session_end",
                              "subagent_stop"}
        /\ e.needs_input = (e.event_type = "notification") }

\* fewer kinds of request, about two sessions
RequestsTwo == RequestsFor(SessionIds, MainEvents)

\* the worker agent's tool_use and subagent_stop, stop and session_end
ConcEvents ==
    { e \in HookEvents :
        /\ e.event_type \in {"tool_use", "subagent_stop", "stop", "session_end"}
        /\ e.agent_name = (IF e.event_type \in {"tool_use", "subagent_stop"}
                           THEN "worker" ELSE None)
        /\ ~e.needs_input }

\* the requests that two clients send at once about one session
RequestsConc == RequestsFor({"s1"}, ConcEvents)

\* the events of one session
EventsOf(s) == { PostEvent(e) : e \in { x \in MainEvents : x.session_id = s } }

VARIABLES
    now,        \* wall clock, in ticks
    nreq,       \* how many requests were accepted
    sessions,   \* table sessions: rows [session_id, status, updated_at]
    agents,     \* table agents: rows [session_id, agent_name, status]
    events,     \* table events: number of rows per session_id
    pc,         \* each task's position
    req,        \* each task's request
    rows,       \* get_active_sessions: session rows not yet given agents
    view,       \* get_active_sessions: SessionWithAgents built so far
    resp,       \* each task's last HTTP response
    buffer,     \* broadcast channel: the messages a live receiver has yet to take
    last,       \* broadcast channel: the message sent last to a receiver, if any
    client,     \* each WebSocket client's receiver and connect-time snapshot
    purged,     \* cleanup_old_completed: what the statements so far deleted
    during      \* get_active_sessions: what the tables held since its first SELECT

vars == <<now, nreq, sessions, agents, events, pc, req, rows, view, resp,
          buffer, last, client, purged, during>>

\* ------------------------------------------------ the SQL statements
SessionRow(sid, st, t) == [session_id |-> sid, status |-> st, updated_at |-> t]
AgentRow(sid, name, st) == [session_id |-> sid, agent_name |-> name, status |-> st]

\* SQLite's datetime(): a timestamp cut to whole seconds
datetime(t) == t \div TicksPerSecond

\* INSERT INTO sessions ... ON CONFLICT(session_id) DO UPDATE SET status, updated_at
upsert_session(S, sid, st, t) ==
    IF \E r \in S : r.session_id = sid
    THEN { IF r.session_id = sid
           THEN [r EXCEPT !.status = st, !.updated_at = t]
           ELSE r : r \in S }
    ELSE S \cup {SessionRow(sid, st, t)}

\* a plain INSERT INTO agents on a table without UNIQUE (session_id, agent_name)
insert_agent(A, sid, name, st) == A \cup {AgentRow(sid, name, st)}

\* an UPDATE agents SET status = ? WHERE session_id = ? AND agent_name = ?
\* in place of the INSERT ... ON CONFLICT
update_agent_only(A, sid, name, st) ==
    { IF a.session_id = sid /\ a.agent_name = name
      THEN [a EXCEPT !.status = st]
      ELSE a : a \in A }

\* INSERT INTO agents ... ON CONFLICT(session_id, agent_name) DO UPDATE SET status
upsert_agent(A, sid, name, st) ==
    IF \E a \in A : a.session_id = sid /\ a.agent_name = name
    THEN { IF a.session_id = sid /\ a.agent_name = name
           THEN [a EXCEPT !.status = st]
           ELSE a : a \in A }
    ELSE A \cup {AgentRow(sid, name, st)}

\* FOREIGN KEY (session_id) REFERENCES sessions(session_id), foreign_keys(true)
ForeignKeysHold(S, A) ==
    \A a \in A : \E r \in S : r.session_id = a.session_id

\* db.rs, mark_active_session_completed: UPDATE sessions SET status =
\* 'completed' ... WHERE session_id = ? AND status = 'active' (called in place
\* of mark_session_completed)
mark_active_session_completed_sessions(S, sid, t) ==
    { IF r.session_id = sid /\ r.status = "active"
      THEN [r EXCEPT !.status = "completed", !.updated_at = t]
      ELSE r : r \in S }

\* UPDATE sessions SET status = 'completed', updated_at = ? WHERE session_id = ?
mark_session_completed_sessions(S, sid, t) ==
    { IF r.session_id = sid
      THEN [r EXCEPT !.status = "completed", !.updated_at = t]
      ELSE r : r \in S }

\* the agents UPDATE of mark_session_completed with its WHERE clause left out
mark_all_agents_completed(A, sid) ==
    { [a EXCEPT !.status = "completed"] : a \in A }

\* UPDATE agents SET status = 'completed' WHERE session_id = ?
mark_session_completed_agents(A, sid) ==
    { IF a.session_id = sid THEN [a EXCEPT !.status = "completed"] ELSE a : a \in A }

\* the same UPDATE with "AND status NOT IN ('waiting_input',
\* 'needs_permission')" in place of "AND status = 'active'"
mark_idle_sessions_unless_attention(S, sid, t) ==
    { IF r.session_id = sid /\ r.status \notin {"waiting_input", "needs_permission"}
      THEN [r EXCEPT !.status = "idle", !.updated_at = t]
      ELSE r : r \in S }

\* the same UPDATE with its "AND status = 'active'" left out
mark_idle_sessions_any_status(S, sid, t) ==
    { IF r.session_id = sid
      THEN [r EXCEPT !.status = "idle", !.updated_at = t]
      ELSE r : r \in S }

\* UPDATE sessions SET status = 'idle', updated_at = ?
\* WHERE session_id = ? AND status = 'active'
mark_active_session_idle_sessions(S, sid, t) ==
    { IF r.session_id = sid /\ r.status = "active"
      THEN [r EXCEPT !.status = "idle", !.updated_at = t]
      ELSE r : r \in S }

\* the agents UPDATE of mark_active_session_idle with its "session_id = ?" left out
mark_all_active_agents_idle(A, sid) ==
    { IF a.status = "active"
      THEN [a EXCEPT !.status = "idle"]
      ELSE a : a \in A }

\* the same UPDATE with its "AND status = 'active'" left out
mark_idle_agents_any_status(A, sid) ==
    { IF a.session_id = sid THEN [a EXCEPT !.status = "idle"] ELSE a : a \in A }

\* UPDATE agents SET status = 'idle' WHERE session_id = ? AND status = 'active'
mark_active_session_idle_agents(A, sid) ==
    { IF a.session_id = sid /\ a.status = "active"
      THEN [a EXCEPT !.status = "idle"]
      ELSE a : a \in A }

\* SELECT session_id FROM sessions WHERE status = 'completed'
\* AND datetime(updated_at) <= datetime('now', '-60 seconds')
ExpiredRows(S, t) ==
    { r \in S : r.status = "completed"
                /\ datetime(r.updated_at)
                     <= datetime(t - TTL) }

Expired(S, t) == { r.session_id : r \in ExpiredRows(S, t) }

\* the same SELECT with its WHERE clause left out
select_all_sessions(S) == S

\* SELECT ... FROM sessions WHERE status != 'completed'
select_active_sessions(S) == { r \in S : r.status # "completed" }

\* SELECT ... FROM agents WHERE session_id = ?
get_agents_for_session(A, sid) ==
    { [agent_name |-> a.agent_name, status |-> a.status] :
        a \in { x \in A : x.session_id = sid } }

\* a session of a snapshot without its nested agents
SessionWithoutAgents(r, A) ==
    [session_id |-> r.session_id, status |-> r.status, agents |-> {}]

SessionWithAgents(r, A) ==
    [session_id |-> r.session_id, status |-> r.status,
     agents |-> get_agents_for_session(A, r.session_id)]

\* what get_active_sessions returns when both of its reads see the tables S, A
Snapshot(S, A) == { SessionWithAgents(r, A) : r \in select_active_sessions(S) }

\* what the tables held at some instant since the first SELECT of each
\* get_active_sessions that is between its SELECTs, the tables S2, A2 included
Observed(S2, A2) ==
    [q \in Procs |-> IF pc[q] = "select_agents"
                     THEN during[q] \cup {Snapshot(S2, A2)}
                     ELSE during[q]]

\* usize::next_power_of_two
RECURSIVE PowerOfTwoFrom(_, _)
PowerOfTwoFrom(k, n) == IF k >= n THEN k ELSE PowerOfTwoFrom(2 * k, n)

next_power_of_two(n) == PowerOfTwoFrom(1, n)

\* how many messages the channel retains: broadcast::channel rounds the
\* capacity it is asked for up to a power of two
BufferSize == next_power_of_two(Capacity)

\* nothing deleted by the statements of cleanup_old_completed so far
NoPurge == [agents |-> {}, events |-> {}]

\* ------------------------------------------------ the broadcast channel
\* A receiver is kept as the number of messages it has yet to take, behind,
\* which is BufferSize + 1 when the channel has overwritten some of them:
\* they are the last behind messages of buffer.  hello is what became of
\* the snapshot read on connect: "sent" to the socket, or "failed"; warned
\* is whether "WS client lagged" was logged.
NewClient == [behind |-> 0, hello |-> "none", warned |-> FALSE]

\* the clients that hold a receiver
Live == { c \in Clients : pc[c] = "live" }

Min(a, b) == IF a < b THEN a ELSE b

\* the last n elements of q
LastN(q, n) == SubSeq(q, Len(q) - n + 1, Len(q))

\* how many messages the channel still holds for some receiver
Retained(cl, L) ==
    LET n[C \in SUBSET L] ==
          IF C = {} THEN 0
          ELSE LET c == CHOOSE x \in C : TRUE
                   m == Min(cl[c].behind, BufferSize)
               IN IF m > n[C \ {c}] THEN m ELSE n[C \ {c}]
    IN n[L]

\* a Lagged arm that leaves the loop
LaggedArmBreaks == "closed"

\* handle_socket, the Lagged arm of the match: warn! and loop
LaggedArm == "live"

\* the same match with the "if needs_input" guard of its first arm left out
TargetStatusUnguarded(r) ==
    IF r.event_type = "notification"
    THEN <<"waiting_input", "waiting_input">>
    ELSE IF r.event_type = "needs_permission"
    THEN <<"needs_permission", "needs_permission">>
    ELSE IF r.event_type = "subagent_stop"
    THEN <<"active", "completed">>
    ELSE <<"active", "active">>

\* api.rs: the match on event_type that picks (session_status, agent_status)
TargetStatus(r) ==
    IF r.event_type = "notification" /\ r.needs_input
    THEN <<"waiting_input", "waiting_input">>
    ELSE IF r.event_type = "needs_permission"
    THEN <<"needs_permission", "needs_permission">>
    ELSE IF r.event_type = "subagent_stop"
    THEN <<"active", "completed">>
    ELSE <<"active", "active">>

\* api.rs: event.agent_name.as_deref().unwrap_or("main")
AgentNameOf(r) == IF r.agent_name = None THEN "main" ELSE r.agent_name

\* ------------------------------------------------------------- state
Init ==
    /\ now = 0
    /\ nreq = 0
    /\ sessions = {}
    /\ agents = {}
    /\ events = [s \in SessionIds |-> 0]
    /\ pc = [p \in Procs |-> "idle"]
    /\ req = [p \in Procs |-> IF p = Sweeper THEN SweepRequest ELSE NoRequest]
    /\ rows = [p \in Procs |-> {}]
    /\ view = [p \in Procs |-> {}]
    /\ resp = [p \in Procs |-> "none"]
    /\ buffer = <<>>
    /\ last = <<>>
    /\ client = [c \in Clients |-> NewClient]
    /\ purged = NoPurge
    /\ during = [p \in Procs |-> {}]

\* no request and no run of the cleanup task is in flight
AllIdle == \A p \in Workers \cup {Sweeper} : pc[p] = "idle"

Goto(p, label) == pc' = [pc EXCEPT ![p] = label]

\* the handler returns 200 OK ("ok") or 500 ("error"); the cleanup task
\* goes back to interval.tick()
Return(p, r) ==
    /\ pc' = [pc EXCEPT ![p] = "idle"]
    /\ resp' = [resp EXCEPT ![p] = IF p = Sweeper THEN "none" ELSE r]
    /\ req' = [req EXCEPT ![p] = IF p = Sweeper THEN SweepRequest ELSE NoRequest]

\* broadcast_sessions() never fails its caller: the handler answers 200 OK
Finish(p) == Return(p, "ok")

\* where each handler starts
Entry(r) ==
    CASE r.kind = "post_event" /\ r.event_type = "stop" -> "mark_idle_sessions"
      [] r.kind = "post_event" /\ r.event_type = "session_end" -> "mark_completed_sessions"
      [] r.kind = "post_event" -> "upsert_session"
      [] r.kind = "delete_session" -> "mark_completed_sessions"
      [] r.kind = "clear_all_sessions" -> "clear_events"
      [] OTHER -> "select_sessions"

\* ---------------------------------------------------------- requests
\* axum hands request r to task p
Accept(p, r) ==
    /\ pc[p] = "idle"
    /\ nreq < MaxRequests
    /\ nreq' = nreq + 1
    /\ req' = [req EXCEPT ![p] = r]
    /\ resp' = [resp EXCEPT ![p] = "none"]
    /\ view' = [view EXCEPT ![p] = {}]
    /\ Goto(p, Entry(r))
    /\ UNCHANGED <<now, sessions, agents, events, rows>>
    /\ UNCHANGED <<buffer, last, client, purged, during>>

\* the wall clock advances to a later one of the instants R
Tick(R) ==
    /\ \E t \in R : t > now /\ now' = t
    /\ UNCHANGED <<nreq, sessions, agents, events, pc, req, rows, view, resp>>
    /\ UNCHANGED <<buffer, last, client, purged, during>>

\* ------------------------------------------- post_event: stop branch
\* mark_active_session_idle, first statement; an Err skips the second and
\* is logged
MarkIdleSessions(p) ==
    /\ pc[p] = "mark_idle_sessions"
    /\ \E fault \in BOOLEAN :
         IF fault
         THEN Goto(p, "warn") /\ UNCHANGED sessions
         ELSE /\ sessions' = mark_active_session_idle_sessions(
                                sessions, req[p].session_id, now)
              /\ Goto(p, "mark_idle_agents")
    /\ UNCHANGED <<now, nreq, agents, events, req, rows, view, resp>>
    /\ during' = Observed(sessions', agents')
    /\ UNCHANGED <<buffer, last, client, purged>>

\* mark_active_session_idle, second statement
MarkIdleAgents(p) ==
    /\ pc[p] = "mark_idle_agents"
    /\ \E fault \in BOOLEAN :
         IF fault
         THEN UNCHANGED agents /\ Goto(p, "warn")
         ELSE /\ agents' = mark_active_session_idle_agents(agents, req[p].session_id)
              /\ Goto(p, "insert_event")
    /\ UNCHANGED <<now, nreq, sessions, events, req, rows, view, resp>>
    /\ during' = Observed(sessions', agents')
    /\ UNCHANGED <<buffer, last, client, purged>>

\* ------------------- post_event: session_end branch, and delete_session
\* mark_session_completed, first statement.  post_event logs an Err and
\* goes on; delete_session answers 500.
MarkCompletedSessions(p) ==
    /\ pc[p] = "mark_completed_sessions"
    /\ \E fault \in BOOLEAN :
         IF fault
         THEN /\ UNCHANGED sessions
              /\ IF req[p].kind = "delete_session"
                 THEN Return(p, "error")
                 ELSE Goto(p, "warn") /\ UNCHANGED <<req, resp>>
         ELSE /\ sessions' = mark_session_completed_sessions(
                                sessions, req[p].session_id, now)
              /\ Goto(p, "mark_completed_agents")
              /\ UNCHANGED <<req, resp>>
    /\ UNCHANGED <<now, nreq, agents, events, rows, view>>
    /\ during' = Observed(sessions', agents')
    /\ UNCHANGED <<buffer, last, client, purged>>

\* mark_session_completed, second statement
MarkCompletedAgents(p) ==
    /\ pc[p] = "mark_completed_agents"
    /\ \E fault \in BOOLEAN :
         IF fault
         THEN /\ UNCHANGED agents
              /\ IF req[p].kind = "delete_session"
                 THEN Return(p, "error")
                 ELSE Goto(p, "warn") /\ UNCHANGED <<req, resp>>
         ELSE /\ agents' = mark_session_completed_agents(agents, req[p].session_id)
              /\ IF req[p].kind = "delete_session"
                 THEN Goto(p, "select_sessions")
                 ELSE Goto(p, "insert_event")
              /\ UNCHANGED <<req, resp>>
    /\ UNCHANGED <<now, nreq, sessions, events, rows, view>>
    /\ during' = Observed(sessions', agents')
    /\ UNCHANGED <<buffer, last, client, purged>>

\* warn!("mark_active_session_idle error") / warn!("mark_session_completed
\* error"): post_event goes on to log the event
Warn(p) ==
    /\ pc[p] = "warn"
    /\ Goto(p, "insert_event")
    /\ UNCHANGED <<now, nreq, sessions, agents, events, req, rows, view, resp>>
    /\ UNCHANGED <<buffer, last, client, purged, during>>

\* ---------------------------------------- post_event: default branch
\* db::upsert_session; an Err answers 500
UpsertSession(p) ==
    /\ pc[p] = "upsert_session"
    /\ \E fault \in BOOLEAN :
         IF fault
         THEN UNCHANGED sessions /\ Return(p, "error")
         ELSE /\ sessions' = upsert_session(sessions, req[p].session_id,
                                            TargetStatus(req[p])[1], now)
              /\ Goto(p, "upsert_agent")
              /\ UNCHANGED <<req, resp>>
    /\ UNCHANGED <<now, nreq, agents, events, rows, view>>
    /\ during' = Observed(sessions', agents')
    /\ UNCHANGED <<buffer, last, client, purged>>

\* db::upsert_agent; an Err (a fault, or the foreign key) answers 500
UpsertAgent(p) ==
    /\ pc[p] = "upsert_agent"
    /\ \E fault \in BOOLEAN :
         LET A2 == upsert_agent(agents, req[p].session_id, AgentNameOf(req[p]),
                                TargetStatus(req[p])[2])
         IN IF fault \/ ~ForeignKeysHold(sessions, A2)
            THEN UNCHANGED agents /\ Return(p, "error")
            ELSE /\ agents' = A2
                 /\ Goto(p, "insert_event")
                 /\ UNCHANGED <<req, resp>>
    /\ UNCHANGED <<now, nreq, sessions, events, rows, view>>
    /\ during' = Observed(sessions', agents')
    /\ UNCHANGED <<buffer, last, client, purged>>

\* an insert_event whose Err answers 500
InsertEventOrFail(p) ==
    /\ pc[p] = "insert_event"
    /\ \E fault \in BOOLEAN :
         IF fault
         THEN UNCHANGED events /\ Return(p, "error")
         ELSE /\ events' = [events EXCEPT ![req[p].session_id] = @ + 1]
              /\ Goto(p, "select_sessions")
              /\ UNCHANGED <<req, resp>>
    /\ UNCHANGED <<now, nreq, sessions, agents, rows, view>>
    /\ UNCHANGED <<buffer, last, client, purged, during>>

\* db::insert_event; an Err is logged (stop, default) or ignored
\* (session_end), and post_event goes on to broadcast_sessions
InsertEvent(p) ==
    /\ pc[p] = "insert_event"
    /\ \E fault \in BOOLEAN :
         IF fault
         THEN UNCHANGED events
         ELSE events' = [events EXCEPT ![req[p].session_id] = @ + 1]
    /\ Goto(p, "select_sessions")
    /\ UNCHANGED <<now, nreq, sessions, agents, req, rows, view, resp>>
    /\ UNCHANGED <<buffer, last, client, purged, during>>

\* ------------------ get_active_sessions, for broadcast_sessions and
\* ------------------ for GET /api/sessions
\* the failed read: get_sessions answers 500; broadcast_sessions logs it,
\* sends nothing, and its caller goes on to answer 200 OK; handle_socket
\* logs it and goes on to subscribe
ReadFailed(p) ==
    CASE req[p].kind = "get_sessions" -> Return(p, "error")
      [] req[p].kind = "ws" -> Goto(p, "ws_warn") /\ UNCHANGED <<req, resp>>
      [] OTHER -> Finish(p)

\* a finished read after which handle_socket subscribes at once
ReadDoneNoHello(p) ==
    /\ Goto(p, CASE req[p].kind = "get_sessions" -> "respond"
                 [] req[p].kind = "ws" -> "subscribe"
                 [] OTHER -> "send")
    /\ UNCHANGED <<req, resp>>

\* the finished read: get_sessions answers with it, broadcast_sessions sends
\* it, handle_socket sends it to the socket
ReadDone(p) ==
    /\ Goto(p, CASE req[p].kind = "get_sessions" -> "respond"
                 [] req[p].kind = "ws" -> "ws_first"
                 [] OTHER -> "send")
    /\ UNCHANGED <<req, resp>>

\* SELECT ... FROM sessions WHERE status != 'completed'
SelectSessions(p) ==
    /\ pc[p] = "select_sessions"
    /\ \E fault \in BOOLEAN :
         IF fault
         THEN ReadFailed(p) /\ UNCHANGED <<rows, view, during>>
         ELSE LET R == select_active_sessions(sessions)
              IN /\ rows' = [rows EXCEPT ![p] = R]
                 /\ view' = [view EXCEPT ![p] = {}]
                 /\ IF R = {}
                    THEN ReadDone(p) /\ UNCHANGED during
                    ELSE /\ Goto(p, "select_agents")
                         /\ during' = [during EXCEPT
                                         ![p] = {Snapshot(sessions, agents)}]
                         /\ UNCHANGED <<req, resp>>
    /\ UNCHANGED <<now, nreq, sessions, agents, events>>
    /\ UNCHANGED <<buffer, last, client, purged>>

\* get_agents_for_session for the next row of the loop
SelectAgents(p) ==
    /\ pc[p] = "select_agents"
    /\ \E r \in rows[p], fault \in BOOLEAN :
         IF fault
         THEN /\ rows' = [rows EXCEPT ![p] = {}]
              /\ view' = [view EXCEPT ![p] = {}]
              /\ during' = [during EXCEPT ![p] = {}]
              /\ ReadFailed(p)
         ELSE /\ rows' = [rows EXCEPT ![p] = @ \ {r}]
              /\ view' = [view EXCEPT ![p] = @ \cup {SessionWithAgents(r, agents)}]
              /\ IF rows[p] = {r}
                 THEN ReadDone(p) /\ during' = [during EXCEPT ![p] = {}]
                 ELSE UNCHANGED <<pc, req, resp, during>>
    /\ UNCHANGED <<now, nreq, sessions, agents, events>>
    /\ UNCHANGED <<buffer, last, client, purged>>

\* get_sessions: Json(sessions).into_response()
Respond(p) ==
    /\ pc[p] = "respond"
    /\ view' = [view EXCEPT ![p] = {}]
    /\ Return(p, "ok")
    /\ UNCHANGED <<now, nreq, sessions, agents, events, rows>>
    /\ UNCHANGED <<buffer, last, client, purged, during>>

\* tx.send(m): every receiver has one more message to take, and a receiver
\* that already had BufferSize of them loses the oldest.  With no receiver
\* but main's _rx, which never takes a message, what is sent is never read
\* by anyone, and no trace of it is kept.
Publish(m) ==
    IF Live = {}
    THEN UNCHANGED <<buffer, last, client>>
    ELSE /\ client' = [c \in Clients |->
                         IF c \in Live
                         THEN [client[c] EXCEPT
                                 !.behind = Min(@ + 1, BufferSize + 1)]
                         ELSE client[c]]
         /\ buffer' = LastN(Append(buffer, m), Retained(client', Live))
         /\ last' = <<m>>

\* serde_json::to_string and tx.send
Send(p) ==
    /\ pc[p] = "send"
    /\ Publish(view[p])
    /\ view' = [view EXCEPT ![p] = {}]
    /\ Finish(p)
    /\ UNCHANGED <<now, nreq, sessions, agents, events, rows>>
    /\ UNCHANGED <<purged, during>>

\* ------------------------------------------- ws.rs: handle_socket
\* a client opens /ws
Connect(c) ==
    /\ pc[c] = "idle"
    /\ req[c] = NoRequest
    /\ req' = [req EXCEPT ![c] = WsRequest]
    /\ Goto(c, "select_sessions")
    /\ UNCHANGED <<now, nreq, sessions, agents, events, rows, view, resp,
                   buffer, last, client, purged, during>>

\* warn!("Failed to fetch sessions for new WS client"): no snapshot is sent
WsWarn(c) ==
    /\ pc[c] = "ws_warn"
    /\ client' = [client EXCEPT ![c].hello = "failed"]
    /\ Goto(c, "subscribe")
    /\ UNCHANGED <<now, nreq, sessions, agents, events, req, rows, view, resp,
                   buffer, last, purged, during>>

\* sender.send(Message::Text(json)) of the snapshot read on connect; when it
\* fails handle_socket returns
WsFirst(c) ==
    /\ pc[c] = "ws_first"
    /\ view' = [view EXCEPT ![c] = {}]
    /\ \E sent \in BOOLEAN :
         IF sent
         THEN /\ client' = [client EXCEPT ![c].hello = "sent"]
              /\ Goto(c, "subscribe")
         ELSE UNCHANGED client /\ Goto(c, "closed")
    /\ UNCHANGED <<now, nreq, sessions, agents, events, req, rows, resp,
                   buffer, last, purged, during>>

\* state.tx.subscribe(): the receiver has nothing to take yet
Subscribe(c) ==
    /\ pc[c] = "subscribe"
    /\ client' = [client EXCEPT ![c].behind = 0]
    /\ Goto(c, "live")
    /\ UNCHANGED <<now, nreq, sessions, agents, events, req, rows, view, resp,
                   buffer, last, purged, during>>

\* rx.recv() returns: Lagged when messages the receiver had yet to take were
\* overwritten, and the receiver moves to the oldest one retained; else the
\* next message, which goes to the socket
Recv(c) ==
    /\ pc[c] = "live"
    /\ client[c].behind > 0
    /\ IF client[c].behind > BufferSize
       THEN /\ client' = [client EXCEPT
                            ![c] = [@ EXCEPT !.behind = BufferSize,
                                             !.warned = TRUE]]
            /\ Goto(c, LaggedArm)
       ELSE /\ client' = [client EXCEPT ![c].behind = @ - 1]
            /\ UNCHANGED pc
    /\ buffer' = LastN(buffer, Retained(client', { x \in Clients : pc'[x] = "live" }))
    /\ UNCHANGED <<now, nreq, sessions, agents, events, req, rows, view, resp,
                   last, purged, during>>

\* the client closes the socket (or a send to it fails): send_task ends and
\* its receiver is dropped
Disconnect(c) ==
    /\ pc[c] = "live"
    /\ Goto(c, "closed")
    /\ client' = [client EXCEPT ![c] = NewClient]
    /\ buffer' = LastN(buffer, Retained(client', Live \ {c}))
    /\ last' = IF Live = {c} THEN <<>> ELSE last
    /\ UNCHANGED <<now, nreq, sessions, agents, events, req, rows, view, resp,
                   purged, during>>

\* ------------------------------------------------- clear_all_sessions
\* DELETE FROM events
ClearEvents(p) ==
    /\ pc[p] = "clear_events"
    /\ \E fault \in BOOLEAN :
         IF fault
         THEN UNCHANGED events /\ Return(p, "error")
         ELSE /\ events' = [s \in SessionIds |-> 0]
              /\ Goto(p, "clear_agents")
              /\ UNCHANGED <<req, resp>>
    /\ UNCHANGED <<now, nreq, sessions, agents, rows, view>>
    /\ UNCHANGED <<buffer, last, client, purged, during>>

\* DELETE FROM agents
ClearAgents(p) ==
    /\ pc[p] = "clear_agents"
    /\ \E fault \in BOOLEAN :
         IF fault
         THEN UNCHANGED agents /\ Return(p, "error")
         ELSE /\ agents' = {}
              /\ Goto(p, "clear_sessions")
              /\ UNCHANGED <<req, resp>>
    /\ UNCHANGED <<now, nreq, sessions, events, rows, view>>
    /\ during' = Observed(sessions', agents')
    /\ UNCHANGED <<buffer, last, client, purged>>

\* DELETE FROM sessions
ClearSessions(p) ==
    /\ pc[p] = "clear_sessions"
    /\ \E fault \in BOOLEAN :
         IF fault \/ ~ForeignKeysHold({}, agents)
         THEN UNCHANGED sessions /\ Return(p, "error")
         ELSE /\ sessions' = {}
              /\ Goto(p, "select_sessions")
              /\ UNCHANGED <<req, resp>>
    /\ UNCHANGED <<now, nreq, agents, events, rows, view>>
    /\ during' = Observed(sessions', agents')
    /\ UNCHANGED <<buffer, last, client, purged>>

\* ------------------------------------- main.rs: the cleanup task
\* interval.tick() fires
SweepTick ==
    /\ pc[Sweeper] = "idle"
    /\ Goto(Sweeper, "cleanup_agents")
    /\ UNCHANGED <<now, nreq, sessions, agents, events, req, rows, view, resp>>
    /\ UNCHANGED <<buffer, last, client, purged, during>>

\* cleanup_old_completed: DELETE FROM agents WHERE session_id IN (expired)
CleanupAgents ==
    /\ pc[Sweeper] = "cleanup_agents"
    /\ \E fault \in BOOLEAN :
         IF fault
         THEN UNCHANGED <<agents, purged>> /\ Return(Sweeper, "none")
         ELSE /\ agents' = { a \in agents : a.session_id \notin Expired(sessions, now) }
              /\ purged' = [purged EXCEPT
                              !.agents = { a.session_id : a \in agents \ agents' }]
              /\ Goto(Sweeper, "cleanup_events")
              /\ UNCHANGED <<req, resp>>
    /\ UNCHANGED <<now, nreq, sessions, events, rows, view>>
    /\ during' = Observed(sessions', agents')
    /\ UNCHANGED <<buffer, last, client>>

\* cleanup_old_completed: DELETE FROM events WHERE session_id IN (expired)
CleanupEvents ==
    /\ pc[Sweeper] = "cleanup_events"
    /\ \E fault \in BOOLEAN :
         IF fault
         THEN UNCHANGED events /\ purged' = NoPurge /\ Return(Sweeper, "none")
         ELSE /\ events' = [s \in SessionIds |->
                              IF s \in Expired(sessions, now) THEN 0 ELSE events[s]]
              /\ purged' = [purged EXCEPT
                              !.events = { s \in SessionIds : events'[s] < events[s] }]
              /\ Goto(Sweeper, "cleanup_sessions")
              /\ UNCHANGED <<req, resp>>
    /\ UNCHANGED <<now, nreq, sessions, agents, rows, view>>
    /\ UNCHANGED <<buffer, last, client, during>>

\* a cleanup task that goes back to interval.tick() after every run
CleanupSessionsQuiet ==
    /\ pc[Sweeper] = "cleanup_sessions"
    /\ \E fault \in BOOLEAN :
         LET S2 == sessions \ ExpiredRows(sessions, now)
         IN IF fault \/ ~ForeignKeysHold(S2, agents)
            THEN UNCHANGED sessions
            ELSE sessions' = S2
    /\ Return(Sweeper, "none")
    /\ purged' = NoPurge
    /\ UNCHANGED <<now, nreq, agents, events, rows, view>>
    /\ during' = Observed(sessions', agents')
    /\ UNCHANGED <<buffer, last, client>>

\* cleanup_old_completed: DELETE FROM sessions WHERE (expired); the statement
\* fails as a whole when an agent row still references a row it deletes
CleanupSessions ==
    /\ pc[Sweeper] = "cleanup_sessions"
    /\ \E fault \in BOOLEAN :
         LET S2 == sessions \ ExpiredRows(sessions, now)
         IN IF fault \/ ~ForeignKeysHold(S2, agents)
            THEN UNCHANGED sessions /\ Return(Sweeper, "none")
            ELSE /\ sessions' = S2
                 /\ Goto(Sweeper, "select_sessions")
                 /\ UNCHANGED <<req, resp>>
    /\ purged' = NoPurge
    /\ UNCHANGED <<now, nreq, agents, events, rows, view>>
    /\ during' = Observed(sessions', agents')
    /\ UNCHANGED <<buffer, last, client>>

\* ------------------------------------------------------ specification
\* one statement of task p
Step(p) ==
    \/ MarkIdleSessions(p)
    \/ MarkIdleAgents(p)
    \/ MarkCompletedSessions(p)
    \/ MarkCompletedAgents(p)
    \/ Warn(p)
    \/ UpsertSession(p)
    \/ UpsertAgent(p)
    \/ InsertEvent(p)
    \/ SelectSessions(p)
    \/ SelectAgents(p)
    \/ Respond(p)
    \/ Send(p)
    \/ ClearEvents(p)
    \/ ClearAgents(p)
    \/ ClearSessions(p)

Cleanup == CleanupAgents \/ CleanupEvents \/ CleanupSessions

\* Requests are served one at a time, and the cleanup task runs between
\* them; the clock runs on its own.
Next ==
    \/ AllIdle /\ \E r \in Requests : Accept("w1", r)
    \/ AllIdle /\ SweepTick
    \/ \E p \in Procs : Step(p)
    \/ Cleanup
    \/ Tick(ClockReadings)

Spec == Init /\ [][Next]_vars

\* The same with two sessions.
NextTwo ==
    \/ AllIdle /\ \E r \in RequestsTwo : Accept("w1", r)
    \/ AllIdle /\ SweepTick
    \/ \E p \in Procs : Step(p)
    \/ Cleanup
    \/ Tick(LongReadings)

SpecTwo == Init /\ [][NextTwo]_vars

\* Two requests are served at once, their statements interleaved.
NextConc ==
    \/ \E p \in Workers, r \in RequestsConc : Accept(p, r)
    \/ \E p \in Workers : Step(p)

SpecConc == Init /\ [][NextConc]_vars

\* one statement of a post_event
EventStep(p) ==
    \/ MarkIdleSessions(p)
    \/ MarkIdleAgents(p)
    \/ MarkCompletedSessions(p)
    \/ MarkCompletedAgents(p)
    \/ Warn(p)
    \/ UpsertSession(p)
    \/ UpsertAgent(p)
    \/ InsertEvent(p)
    \/ SelectSessions(p)
    \/ SelectAgents(p)
    \/ Send(p)

\* The events of session s1 and the events of session s2 are handled at
\* once, their statements interleaved.
NextPair ==
    \/ \E r \in EventsOf("s1") : Accept("w1", r)
    \/ \E r \in EventsOf("s2") : Accept("w2", r)
    \/ \E p \in Workers : EventStep(p)

SpecPair == Init /\ [][NextPair]_vars

\* one step of the task of a WebSocket connection, once it is open
ClientStep(c) ==
    \/ SelectSessions(c)
    \/ SelectAgents(c)
    \/ WsWarn(c)
    \/ WsFirst(c)
    \/ Subscribe(c)
    \/ Recv(c)
    \/ Disconnect(c)

\* the main agent's tool_use for session s1
ToolUse ==
    PostEvent([event_type |-> "tool_use", session_id |-> "s1",
               agent_name |-> None, needs_input |-> FALSE])

\* one statement of a tool_use, or of the broadcast after a cleanup
ToolUseStep(p) ==
    \/ UpsertSession(p)
    \/ UpsertAgent(p)
    \/ InsertEvent(p)
    \/ SelectSessions(p)
    \/ SelectAgents(p)
    \/ Send(p)

\* no WebSocket connection is between its upgrade and its subscription
Settled == \A c \in Clients : pc[c] \in {"idle", "live", "closed"}

\* Two WebSocket clients come, take messages or stall, and go, while the
\* first tool_use of session s1 and runs of the cleanup task, one at a time
\* and not while a client is connecting, publish snapshots.  Of the two
\* clients, c1 is the one that connects first.
NextHub ==
    \/ AllIdle /\ Connect("c1")
    \/ AllIdle /\ req["c1"] # NoRequest /\ Connect("c2")
    \/ AllIdle /\ Settled /\ sessions = {} /\ Accept("w1", ToolUse)
    \/ AllIdle /\ Settled /\ SweepTick
    \/ \E p \in {"w1", Sweeper} : ToolUseStep(p)
    \/ Cleanup
    \/ \E c \in Clients : ClientStep(c)

SpecHub == Init /\ [][NextHub]_vars

\* the main agent's tool_use and session_end for session s1
HubEvents ==
    { e \in MainEvents :
        e.session_id = "s1" /\ e.event_type \in {"tool_use", "session_end"} }

\* one statement of a tool_use or a session_end, or of the broadcast after
\* a cleanup
HubStep(p) ==
    \/ MarkCompletedSessions(p)
    \/ MarkCompletedAgents(p)
    \/ Warn(p)
    \/ UpsertSession(p)
    \/ UpsertAgent(p)
    \/ InsertEvent(p)
    \/ SelectSessions(p)
    \/ SelectAgents(p)
    \/ Send(p)

\* every subscribed client has taken all that was sent
KeepsUp == \A c \in Live : client[c].behind = 0

\* One WebSocket client watches while events are handled and the cleanup
\* task runs, the statements of all three interleaved; the client takes
\* each message before anything else happens.
NextWatch ==
    \/ KeepsUp /\ Connect("c1")
    \/ KeepsUp /\ \E e \in HubEvents : Accept("w1", PostEvent(e))
    \/ KeepsUp /\ SweepTick
    \/ KeepsUp /\ \E p \in {"w1", Sweeper} : HubStep(p)
    \/ KeepsUp /\ Cleanup
    \/ ClientStep("c1")

SpecWatch == Init /\ [][NextWatch]_vars

\* the main agent's stop for session s1
Stop ==
    PostEvent([event_type |-> "stop", session_id |-> "s1",
               agent_name |-> None, needs_input |-> FALSE])

\* one statement of a stop or of a tool_use, none of whose writes fails
RaceStep(p) ==
    \/ MarkIdleSessions(p) /\ pc'[p] # "warn"
    \/ MarkIdleAgents(p) /\ pc'[p] # "warn"
    \/ UpsertSession(p) /\ pc'[p] # "idle"
    \/ UpsertAgent(p) /\ pc'[p] # "idle"
    \/ InsertEvent(p)
    \/ SelectSessions(p)
    \/ SelectAgents(p)
    \/ Send(p)

\* A tool_use creates session s1; then one client sends stop events and
\* another sends tool_use events for it, handled at once, their statements
\* interleaved, and no write fails.
NextRace ==
    \/ nreq = 0 /\ Accept("w1", ToolUse)
    \/ nreq > 0 /\ Accept("w1", Stop)
    \/ nreq > 0 /\ Accept("w2", ToolUse)
    \/ \E p \in Workers : RaceStep(p)

SpecRace == Init /\ [][NextRace]_vars

\* ------------------------------------------------------------ claims
\* the statuses of the rows of session s (one at most, when session_id is unique)
StatusesOf(S, s) == { r.status : r \in { x \in S : x.session_id = s } }

\* the statuses of the rows of agent (s, n)
AgentStatusesOf(A, s, n) ==
    { a.status : a \in { x \in A : x.session_id = s /\ x.agent_name = n } }

\* task p is handling a post_event of type t for session s
Handling(p, t, s) ==
    /\ pc[p] # "idle"
    /\ req[p].kind = "post_event"
    /\ req[p].event_type = t
    /\ req[p].session_id = s

\* task p takes a step
Acts(p) == pc'[p] # pc[p] \/ rows'[p] # rows[p]

\* C1: no step of a task that handles a stop event for session s changes the
\* status of s while that status is waiting_input or needs_permission.
C1_StopLeavesAttention ==
    [][ \A p \in Workers, s \in SessionIds :
          ( /\ Handling(p, "stop", s)
            /\ Acts(p)
            /\ StatusesOf(sessions, s) \subseteq {"waiting_input", "needs_permission"} )
          => StatusesOf(sessions', s) = StatusesOf(sessions, s) ]_vars

\* mark_active_session_idle has run its sessions statement for a session
\* that waits for input or for a permission
C1_Witness ==
    \E p \in Workers, s \in SessionIds :
        /\ Handling(p, "stop", s)
        /\ pc[p] = "mark_idle_agents"
        /\ StatusesOf(sessions, s) \in {{"waiting_input"}, {"needs_permission"}}

\* C2: when mark_active_session_idle succeeds on its sessions statement, an
\* active session becomes idle; when it succeeds on its agents statement,
\* the agents of the session that were active are idle and every other
\* agent row is as before; and no step of a task that handles a stop event
\* makes a session or an agent completed.
C2_StopIdlesActive ==
    [][ \A p \in Workers, s \in SessionIds :
          (Handling(p, "stop", s) /\ Acts(p)) =>
            /\ ( /\ pc[p] = "mark_idle_sessions"
                 /\ pc'[p] = "mark_idle_agents"
                 /\ StatusesOf(sessions, s) = {"active"} )
               => StatusesOf(sessions', s) = {"idle"}
            /\ (pc[p] = "mark_idle_agents" /\ pc'[p] = "insert_event")
               => \A s2 \in SessionIds, n \in AgentNames :
                    AgentStatusesOf(agents', s2, n) =
                      IF s2 = s /\ AgentStatusesOf(agents, s, n) = {"active"}
                      THEN {"idle"}
                      ELSE AgentStatusesOf(agents, s2, n)
            /\ \A s2 \in SessionIds :
                 /\ "completed" \in StatusesOf(sessions', s2)
                      => "completed" \in StatusesOf(sessions, s2)
                 /\ \A n \in AgentNames :
                      "completed" \in AgentStatusesOf(agents', s2, n)
                        => "completed" \in AgentStatusesOf(agents, s2, n) ]_vars

\* a stop has made an active session and its active main agent idle, and has
\* left its completed worker agent completed
C2_Witness ==
    \E p \in Workers, s \in SessionIds :
        /\ Handling(p, "stop", s)
        /\ pc[p] = "insert_event"
        /\ StatusesOf(sessions, s) = {"idle"}
        /\ AgentStatusesOf(agents, s, "main") = {"idle"}
        /\ AgentStatusesOf(agents, s, "worker") = {"completed"}

\* C3: when mark_session_completed succeeds on its sessions statement for a
\* session_end event, the session row, if there is one, is completed; when
\* it then succeeds on its agents statement, the session row and every agent
\* row of the session are completed.
C3_SessionEndCompletes ==
    [][ \A p \in Workers, s \in SessionIds :
          (Handling(p, "session_end", s) /\ Acts(p)) =>
            /\ (pc[p] = "mark_completed_sessions" /\ pc'[p] = "mark_completed_agents")
               => StatusesOf(sessions', s) \subseteq {"completed"}
            /\ (pc[p] = "mark_completed_agents" /\ pc'[p] = "insert_event")
               => /\ StatusesOf(sessions', s) \subseteq {"completed"}
                  /\ \A n \in AgentNames :
                       AgentStatusesOf(agents', s, n) \subseteq {"completed"} ]_vars

\* a session_end has completed a session and its two agents
C3_Witness ==
    \E p \in Workers, s \in SessionIds :
        /\ Handling(p, "session_end", s)
        /\ pc[p] = "insert_event"
        /\ StatusesOf(sessions, s) = {"completed"}
        /\ AgentStatusesOf(agents, s, "main") = {"completed"}
        /\ AgentStatusesOf(agents, s, "worker") = {"completed"}

\* task p, handling a request, returns 200 OK
ReturnsOk(p) == pc[p] # "idle" /\ pc'[p] = "idle" /\ resp'[p] = "ok"

\* task p handles a post_event that is neither a stop nor a session_end
DefaultPath(p) ==
    /\ pc[p] # "idle"
    /\ req[p].kind = "post_event"
    /\ req[p].event_type \notin {"stop", "session_end"}

\* the transition table of the specification: (session status, agent status)
TableStatus(r) ==
    CASE r.event_type = "notification" /\ r.needs_input
           -> <<"waiting_input", "waiting_input">>
      [] r.event_type = "needs_permission"
           -> <<"needs_permission", "needs_permission">>
      [] r.event_type = "subagent_stop"
           -> <<"active", "completed">>
      [] OTHER
           -> <<"active", "active">>

\* C4, as claimed: a session row that is completed stays completed until it
\* is deleted.
C4_CompletedIsTerminal ==
    [][ \A s \in SessionIds :
          StatusesOf(sessions, s) = {"completed"}
            => StatusesOf(sessions', s) \subseteq {"completed"} ]_vars

\* C4, amended: a session row that is completed stays completed until it is
\* deleted or until the upsert_session of an event that is neither a stop
\* nor a session_end overwrites its status with the status of the table.
C4_CompletedUntilUpsert ==
    [][ \A s \in SessionIds :
          ( /\ StatusesOf(sessions, s) = {"completed"}
            /\ ~(StatusesOf(sessions', s) \subseteq {"completed"}) )
          => \E p \in Workers :
               /\ DefaultPath(p)
               /\ req[p].session_id = s
               /\ pc[p] = "upsert_session"
               /\ pc'[p] = "upsert_agent"
               /\ StatusesOf(sessions', s) = {TableStatus(req[p])[1]} ]_vars

\* a stop event has run its sessions statement on a completed session, which
\* is still completed
C4_Witness ==
    \E p \in Workers, s \in SessionIds :
        /\ Handling(p, "stop", s)
        /\ pc[p] = "mark_idle_agents"
        /\ StatusesOf(sessions, s) = {"completed"}

\* C9: when a post_event that is neither a stop nor a session_end returns
\* 200 OK, the session row exists with the session status of the table and
\* the row of the named agent ("main" when none is named) exists with the
\* agent status of the table.
C9_DefaultPathUpserts ==
    [][ \A p \in Workers :
          (DefaultPath(p) /\ ReturnsOk(p)) =>
            /\ StatusesOf(sessions', req[p].session_id) = {TableStatus(req[p])[1]}
            /\ AgentStatusesOf(agents', req[p].session_id,
                                IF req[p].agent_name = None
                                THEN "main" ELSE req[p].agent_name)
                 = {TableStatus(req[p])[2]} ]_vars

\* a subagent_stop for the worker agent is about to return: the session is
\* active and the worker completed
C9_Witness ==
    \E p \in Workers, s \in SessionIds :
        /\ Handling(p, "subagent_stop", s)
        /\ req[p].agent_name = "worker"
        /\ pc[p] = "send"
        /\ StatusesOf(sessions, s) = {"active"}
        /\ AgentStatusesOf(agents, s, "worker") = {"completed"}

\* the session ids and the agent keys that have a row
SessionKeys(S) == { r.session_id : r \in S }
AgentKeys(A) == { <<a.session_id, a.agent_name>> : a \in A }

\* C10, as claimed: when the first request of a run is a post_event, of any
\* type, and returns 200 OK, a session row and the agent row exist.
C10_FirstEventCreatesRows ==
    [][ \A p \in Workers :
          (req[p].kind = "post_event" /\ nreq = 1 /\ ReturnsOk(p)) =>
            /\ req[p].session_id \in SessionKeys(sessions')
            /\ <<req[p].session_id, AgentNameOf(req[p])>> \in AgentKeys(agents') ]_vars

\* C10, amended: when a post_event that is neither a stop nor a session_end
\* returns 200 OK, a session row and the agent row exist; no step of a task
\* that handles a stop or a session_end creates a session row or an agent row.
C10_DefaultPathCreatesRows ==
    [][ \A p \in Workers :
          /\ (DefaultPath(p) /\ ReturnsOk(p)) =>
                /\ req[p].session_id \in SessionKeys(sessions')
                /\ <<req[p].session_id, AgentNameOf(req[p])>> \in AgentKeys(agents')
          /\ \A s \in SessionIds :
                ((Handling(p, "stop", s) \/ Handling(p, "session_end", s)) /\ Acts(p))
                  => /\ SessionKeys(sessions') \subseteq SessionKeys(sessions)
                     /\ AgentKeys(agents') \subseteq AgentKeys(agents) ]_vars

\* the first request of a run, a stop or a session_end, is logged and is
\* about to return with no row in sessions or agents
C10_Witness ==
    \E p \in Workers, s \in SessionIds :
        /\ Handling(p, "stop", s) \/ Handling(p, "session_end", s)
        /\ nreq = 1
        /\ pc[p] = "send"
        /\ events[s] = 1
        /\ sessions = {}
        /\ agents = {}

\* the rows of the sessions other than s
OtherSessions(S, s) == { r \in S : r.session_id # s }
OtherAgents(A, s) == { a \in A : a.session_id # s }

\* C5: no step of a delete_session(s) changes a session row or an agent row
\* of another session, and when it returns 200 OK every session row and
\* every agent row of s is completed.
C5_TerminateCompletesOnlyTarget ==
    [][ \A p \in Workers :
          (pc[p] # "idle" /\ req[p].kind = "delete_session" /\ Acts(p)) =>
            /\ OtherSessions(sessions', req[p].session_id)
                 = OtherSessions(sessions, req[p].session_id)
            /\ OtherAgents(agents', req[p].session_id)
                 = OtherAgents(agents, req[p].session_id)
            /\ ReturnsOk(p) =>
                 /\ StatusesOf(sessions', req[p].session_id) \subseteq {"completed"}
                 /\ \A n \in AgentNames :
                      AgentStatusesOf(agents', req[p].session_id, n)
                        \subseteq {"completed"} ]_vars

\* a delete_session is about to return: its session and the agent of it
\* are completed, and another session and its agent are still active
C5_Witness ==
    \E p \in Workers, s, s2 \in SessionIds :
        /\ s2 # s
        /\ pc[p] = "send"
        /\ req[p].kind = "delete_session"
        /\ req[p].session_id = s
        /\ StatusesOf(sessions, s) = {"completed"}
        /\ AgentStatusesOf(agents, s, "main") = {"completed"}
        /\ StatusesOf(sessions, s2) = {"active"}
        /\ AgentStatusesOf(agents, s2, "main") = {"active"}

\* C6, as claimed: the sessions DELETE of cleanup_old_completed deletes only
\* rows that are completed and whose updated_at is TTL or more in the past,
\* and leaves no agent row and no event of a session it deletes.
C6_PurgeOnlyExpired ==
    [][ (pc[Sweeper] = "cleanup_sessions" /\ pc'[Sweeper] # "cleanup_sessions") =>
          \A r \in sessions \ sessions' :
              /\ r.status = "completed"
              /\ now - r.updated_at >= TTL
              /\ \A a \in agents' : a.session_id # r.session_id
              /\ events'[r.session_id] = 0 ]_vars

\* C7: no session of a result of get_active_sessions, whole or in the
\* making, is completed.
C7_NoCompletedInSnapshot ==
    \A p \in Procs :
        /\ \A r \in rows[p] : r.status # "completed"
        /\ \A v \in view[p] : v.status # "completed"

\* a snapshot is about to be sent: it holds a session, and the store holds
\* a completed session that is not in it
C7_Witness ==
    \E p \in Procs :
        /\ pc[p] = "send"
        /\ view[p] # {}
        /\ \E r \in sessions :
              /\ r.status = "completed"
              /\ \A v \in view[p] : v.session_id # r.session_id

\* C8: the store holds at most one session row for a session_id and at most
\* one agent row for a (session_id, agent_name) pair, whatever the
\* interleaving of the statements of two requests; after the upsert_agent
\* of an event it holds exactly one row for the event's pair.
C8_UniqueRows ==
    [][ /\ \A s \in SessionIds :
             Cardinality({ r \in sessions' : r.session_id = s }) <= 1
        /\ \A s \in SessionIds, n \in AgentNames :
             Cardinality({ a \in agents' : a.session_id = s /\ a.agent_name = n }) <= 1
        /\ \A p \in Workers :
             (DefaultPath(p) /\ pc[p] = "upsert_agent" /\ pc'[p] = "insert_event")
               => Cardinality({ a \in agents' :
                                  /\ a.session_id = req[p].session_id
                                  /\ a.agent_name = AgentNameOf(req[p]) }) = 1 ]_vars

\* two tasks handle the same event at once, both have run upsert_agent, and
\* the agents table holds one row
C8_Witness ==
    /\ req["w1"] = req["w2"]
    /\ DefaultPath("w1")
    /\ pc["w1"] = "insert_event"
    /\ pc["w2"] = "insert_event"
    /\ Cardinality(agents) = 1

\* the rows of session s
OwnSessions(S, s) == { r \in S : r.session_id = s }
OwnAgents(A, s) == { a \in A : a.session_id = s }

\* what the statement that task p is at writes when the tables hold the rows
\* of its own session only
LocalEffect(p) ==
    LET s == req[p].session_id
        S0 == OwnSessions(sessions, s)
        A0 == OwnAgents(agents, s)
    IN CASE pc[p] = "mark_idle_sessions"
              -> <<mark_active_session_idle_sessions(S0, s, now), A0>>
         [] pc[p] = "mark_idle_agents"
              -> <<S0, mark_active_session_idle_agents(A0, s)>>
         [] pc[p] = "mark_completed_sessions"
              -> <<mark_session_completed_sessions(S0, s, now), A0>>
         [] pc[p] = "mark_completed_agents"
              -> <<S0, mark_session_completed_agents(A0, s)>>
         [] pc[p] = "upsert_session"
              -> <<upsert_session(S0, s, TableStatus(req[p])[1], now), A0>>
         [] pc[p] = "upsert_agent"
              -> <<S0, upsert_agent(A0, s, AgentNameOf(req[p]), TableStatus(req[p])[2])>>
         [] OTHER -> <<S0, A0>>

\* C11: when the events of two sessions are handled at once, a step of the
\* task that handles an event of session s changes no session row, agent row
\* or event of the other session, and leaves the rows of s as its statement
\* leaves them when the store holds the rows of s only (or as they were,
\* when the statement fails).
C11_SessionsDoNotInterfere ==
    [][ \A p \in Workers :
          (pc[p] # "idle" /\ req[p].kind = "post_event" /\ Acts(p)) =>
            LET s == req[p].session_id
            IN /\ OtherSessions(sessions', s) = OtherSessions(sessions, s)
               /\ OtherAgents(agents', s) = OtherAgents(agents, s)
               /\ \A s2 \in SessionIds \ {s} : events'[s2] = events[s2]
               /\ <<OwnSessions(sessions', s), OwnAgents(agents', s)>>
                    \in { <<OwnSessions(sessions, s), OwnAgents(agents, s)>>,
                          LocalEffect(p) } ]_vars

\* a stop for s1 has made s1 idle and is about to update its agents while a
\* tool_use for s2 is between its session write and its agent write
C11_Witness ==
    /\ Handling("w1", "stop", "s1")
    /\ pc["w1"] = "mark_idle_agents"
    /\ StatusesOf(sessions, "s1") = {"idle"}
    /\ AgentStatusesOf(agents, "s1", "main") = {"active"}
    /\ Handling("w2", "tool_use", "s2")
    /\ pc["w2"] = "upsert_agent"
    /\ StatusesOf(sessions, "s2") = {"active"}

\* the messages that receiver c has yet to take and the channel still holds
Pending(buf, cl, c) == LastN(buf, Min(cl[c].behind, BufferSize))

\* the last BufferSize elements of q, or all of q
Clip(q) == LastN(q, Min(Len(q), BufferSize))

\* C12, as claimed: a subscribed client that has let more than Capacity
\* messages be sent without taking one is behind the channel's buffer, so
\* that its next recv tells it of the lag.
C12_LagsPastCapacity ==
    \A c \in Live : client[c].behind > Capacity => client[c].behind > BufferSize

\* C12, amended: a task that is to send is never kept from it; a receiver
\* with more than BufferSize messages sent since it took one, and no other,
\* is told of the lag by its next recv, stays subscribed and has the
\* BufferSize latest messages to take; every message sent is added, once and
\* at the end, to what each receiver has yet to take; a receiver takes the
\* oldest of them; and no step of one client changes what another has yet to
\* take.
C12_LaggingSubscriber ==
    [][ /\ \A p \in Procs : pc[p] = "send" => ENABLED Send(p)
        /\ \A c \in Clients :
             pc[c] = "live" =>
               \* a message is sent
               /\ (\E p \in Procs : pc[p] = "send" /\ pc'[p] # "send") =>
                    /\ pc'[c] = "live"
                    /\ \E p \in Procs :
                         /\ pc[p] = "send" /\ pc'[p] # "send"
                         /\ Pending(buffer', client', c)
                              = Clip(Append(Pending(buffer, client, c), view[p]))
                    /\ client'[c].behind > BufferSize
                         <=> client[c].behind >= BufferSize
               \* rx.recv() returns Lagged
               /\ (client[c].behind > BufferSize
                    /\ client'[c].behind = BufferSize) =>
                    /\ pc'[c] = "live"
                    /\ client'[c].warned
                    /\ Pending(buffer', client', c) = Pending(buffer, client, c)
               \* rx.recv() returns a message
               /\ (client[c].behind <= BufferSize /\ pc'[c] = "live"
                    /\ client'[c].behind < client[c].behind) =>
                    Pending(buffer', client', c) = Tail(Pending(buffer, client, c))
               \* another client takes a step
               /\ ( /\ \A p \in Procs : pc[p] = "send" => pc'[p] = "send"
                    /\ \E c2 \in Clients \ {c} :
                         pc'[c2] # pc[c2] \/ client'[c2] # client[c2] ) =>
                    /\ pc'[c] = "live"
                    /\ client'[c] = client[c]
                    /\ Pending(buffer', client', c) = Pending(buffer, client, c) ]_vars

\* client c1 stalled until messages it had yet to take were overwritten, was
\* told so and has taken every message since, while client c2 took its own
C12_Witness ==
    /\ pc["c1"] = "live"
    /\ client["c1"].warned
    /\ client["c1"].behind = 0
    /\ pc["c2"] = "live"
    /\ ~client["c2"].warned
    /\ client["c2"].behind = 0
    /\ last # <<>>

\* client c takes a message from the channel, which goes to its socket
TakesMessage(c) ==
    /\ pc[c] = "live"
    /\ pc'[c] = "live"
    /\ client[c].behind <= BufferSize
    /\ client'[c].behind < client[c].behind

C20_LastSentIsCurrent ==
    (AllIdle /\ last # <<>>) => last[1] = Snapshot(sessions, agents)

\* C14: while a task handles an event, it starts the agent statement only
\* from the session statement, the insert into the event log only from the
\* agent statement (or from the logging of a failed stop or session_end
\* write), the first SELECT of the broadcast only from the insert into the
\* event log, and it sends only from those SELECTs; the snapshot a task
\* sends is the one of the store as the event's writes left it, and for an
\* event that is neither a stop nor a session_end it holds the session with
\* the session status, and in it the agent with the agent status, that the
\* event's writes gave them.
C14_WritesBeforeSnapshot ==
    [][ \A p \in Workers :
          (req[p].kind = "post_event" /\ Acts(p)) =>
            /\ pc'[p] = "upsert_agent" => pc[p] = "upsert_session"
            /\ pc'[p] = "mark_idle_agents" => pc[p] = "mark_idle_sessions"
            /\ pc'[p] = "mark_completed_agents" => pc[p] = "mark_completed_sessions"
            /\ pc'[p] = "insert_event" =>
                  pc[p] \in {"upsert_agent", "mark_idle_agents",
                             "mark_completed_agents", "warn"}
            /\ pc'[p] = "select_sessions" => pc[p] = "insert_event"
            /\ pc'[p] = "select_agents" => pc[p] \in {"select_sessions", "select_agents"}
            /\ pc'[p] = "send" => pc[p] \in {"select_sessions", "select_agents"}
            /\ pc[p] = "send" => view[p] = Snapshot(sessions, agents)
            /\ (DefaultPath(p) /\ pc[p] = "send") =>
                  \E x \in view[p] :
                      /\ x.session_id = req[p].session_id
                      /\ x.status = TargetStatus(req[p])[1]
                      /\ [agent_name |-> AgentNameOf(req[p]),
                          status |-> TargetStatus(req[p])[2]] \in x.agents ]_vars

\* a notification that asks for input is about to be followed by its
\* broadcast: the snapshot read holds the session as waiting for input
C14_Witness ==
    \E p \in Workers :
        /\ Handling(p, "notification", "s1")
        /\ req[p].needs_input
        /\ pc[p] = "send"
        /\ \E x \in view[p] :
               /\ x.session_id = "s1"
               /\ x.status = "waiting_input"
               /\ [agent_name |-> "main", status |-> "waiting_input"] \in x.agents

\* C15, as claimed: when the first request of a run is an event that is
\* neither a stop nor a session_end and it is answered with an error, the
\* answer comes from one of the two upserts, with no broadcast, and the
\* store is as it was before the request: no session row, no agent row and
\* no event.
C15_FailedUpsertDropsEvent ==
    [][ \A p \in Workers :
          ( /\ DefaultPath(p)
            /\ nreq = 1
            /\ pc'[p] = "idle"
            /\ resp'[p] = "error" ) =>
            /\ pc[p] \in {"upsert_session", "upsert_agent"}
            /\ events' = [s \in SessionIds |-> 0]
            /\ sessions' = {}
            /\ agents' = {} ]_vars

\* C16: a task that handles an event goes from a failed stop or session_end
\* statement to the logging of the failure, from there to the insert into
\* the event log and from that insert, whether it wrote or failed, to
\* broadcast_sessions; from the first of these statements on, every answer
\* is 200 OK and comes from broadcast_sessions, whose send follows its read.
C16_LoggedFailuresStillBroadcast ==
    [][ \A p \in Workers :
          (req[p].kind = "post_event" /\ Acts(p)) =>
            /\ pc[p] = "mark_idle_sessions" =>
                  pc'[p] \in {"mark_idle_agents", "warn"}
            /\ pc[p] = "mark_completed_sessions" =>
                  pc'[p] \in {"mark_completed_agents", "warn"}
            /\ pc[p] \in {"mark_idle_agents", "mark_completed_agents"} =>
                  pc'[p] \in {"insert_event", "warn"}
            /\ pc[p] = "warn" => pc'[p] = "insert_event"
            /\ pc[p] = "insert_event" => pc'[p] = "select_sessions"
            /\ (pc[p] \notin {"upsert_session", "upsert_agent"} /\ pc'[p] = "idle") =>
                  /\ resp'[p] = "ok"
                  /\ pc[p] \in {"select_sessions", "select_agents", "send"}
            /\ pc[p] = "send" => pc'[p] = "idle" ]_vars

\* the first request of a run, a stop, is about to send its snapshot though
\* its insert into the event log failed
C16_Witness ==
    \E p \in Workers :
        /\ Handling(p, "stop", "s1")
        /\ nreq = 1
        /\ events["s1"] = 0
        /\ pc[p] = "send"

\* the statements of cleanup_old_completed
CleanupLabels == {"cleanup_agents", "cleanup_events", "cleanup_sessions"}

C18_PurgeIsAtomic ==
    [][ ( /\ pc[Sweeper] \in {"cleanup_events", "cleanup_sessions"}
          /\ pc'[Sweeper] \notin CleanupLabels ) =>
          (purged.agents \cup purged.events)
             \subseteq (SessionKeys(sessions) \ SessionKeys(sessions')) ]_vars

\* C19, as claimed: the snapshot that get_active_sessions returns is what
\* the tables held at some instant between its first SELECT and its last.
C19_SnapshotIsPointInTime ==
    [][ \A p \in Procs :
          (pc[p] = "select_agents" /\ pc'[p] \in {"send", "respond", "ws_first"}) =>
            view'[p] \in during[p] ]_vars

\* C21, as claimed: a message sent after a client's read on connect is over,
\* while the client has yet to send that snapshot or to subscribe, is one
\* more message that the client has yet to take.
C21_NoPublishMissedOnConnect ==
    [][ \A c \in Clients, p \in Procs :
          ( /\ pc[c] \in {"ws_first", "subscribe"}
            /\ pc[p] = "send"
            /\ pc'[p] = "idle" ) =>
            /\ client'[c].behind = client[c].behind + 1
            /\ buffer' # <<>>
            /\ buffer'[Len(buffer')] = view[p] ]_vars

\* C22, as claimed: after stop and tool_use events of the main agent for
\* session s1, the first a tool_use, none of whose writes failed, when no
\* request is in flight the session and the agent have the statuses that
\* handling the events one after another gives them: both active (a
\* tool_use came last) or both idle (a stop came last).
C22_SameSessionSerializable ==
    (AllIdle /\ nreq > 0) =>
        <<StatusesOf(sessions, "s1"), AgentStatusesOf(agents, "s1", "main")>>
            \in { <<{"active"}, {"active"}>>, <<{"idle"}, {"idle"}>> }

====
